---- MODULE Spec2Model ----
(***************************************************************************)
(* react-dom-functions: element functions that forward a properties object *)
(* and a variadic child list to React.createElement, the memoized element  *)
(* cache of utils.ts, fragment and the two component wrappers.             *)
(*                                                                         *)
(* JavaScript values are records tagged by "kind".  A string is a sequence *)
(* of text pieces (" " is the space piece), so that concatenation and      *)
(* joining are computed.  An object is the ordered sequence of its         *)
(* <<key, value>> fields (insertion order), an array the sequence of its   *)
(* items.                                                                  *)
(***************************************************************************)
EXTENDS Integers, Sequences, FiniteSets, TLC

VARIABLES elementCache, fns, firstFn, last, race

vars == <<elementCache, fns, firstFn, last, race>>

\* Bounds of the model.
MaxRest == 2       \* arguments after the first in one call
MaxTagList == 2    \* length of the list given to createElements
MaxFns == 3        \* element-function instances allocated in one run
MaxItems == 3      \* items in one mapWithKeys call

-----------------------------------------------------------------------------
\* JavaScript values

Undefined == [kind |-> "undefined"]
Null == [kind |-> "null"]
Bool(b) == [kind |-> "boolean", b |-> b]
Num(n) == [kind |-> "number", n |-> n]
Str(s) == [kind |-> "string", s |-> s]
Arr(items) == [kind |-> "array", items |-> items]
Obj(fields) == [kind |-> "object", fields |-> fields]

\* ToBoolean: the falsy values are undefined, null, false, 0 and ''.
Truthy(v) ==
    CASE v.kind = "undefined" -> FALSE
      [] v.kind = "null" -> FALSE
      [] v.kind = "boolean" -> v.b
      [] v.kind = "number" -> v.n # 0
      [] v.kind = "string" -> v.s # <<>>
      [] OTHER -> TRUE

\* The typeof operator.
TypeOf(v) ==
    CASE v.kind = "undefined" -> "undefined"
      [] v.kind = "boolean" -> "boolean"
      [] v.kind = "number" -> "number"
      [] v.kind = "string" -> "string"
      [] OTHER -> "object"

\* Variant: the Array.isArray test is left out of the classification.
isArray_Never(v) == FALSE

isArray(v) == v.kind = "array"

\* React.isValidElement: an object carrying the element $$typeof mark.
isValidElement(v) == v.kind = "element"

HasKey(o, k) ==
    /\ o.kind = "object"
    /\ \E i \in 1..Len(o.fields) : o.fields[i][1] = k

\* o[k]: undefined when the field is absent.
Get(o, k) ==
    IF HasKey(o, k)
    THEN o.fields[CHOOSE i \in 1..Len(o.fields) : o.fields[i][1] = k][2]
    ELSE Undefined

\* Variant: { k: v, ...o }, where the caller's own field k wins over v.
Spread_OwnFieldWins(o, k, v) ==
    IF o.kind = "object" /\ \E i \in 1..Len(o.fields) : o.fields[i][1] = k
    THEN o
    ELSE Obj(<<<<k, v>>>> \o o.fields)

\* { ...o, k: v }: k keeps its place when o has it, else it is added last.
Spread(o, k, v) ==
    IF HasKey(o, k)
    THEN Obj([i \in 1..Len(o.fields) |->
                 IF o.fields[i][1] = k THEN <<k, v>> ELSE o.fields[i]])
    ELSE Obj(Append(o.fields, <<k, v>>))

\* The fields of o other than k, in order.
Without(o, k) == Obj(SelectSeq(o.fields, LAMBDA f : f[1] # k))

\* The rest parameter binding: (propsOrChildren?, ...children).
Param0(args) == IF args = <<>> THEN Undefined ELSE Head(args)
RestParams(args) == IF args = <<>> THEN <<>> ELSE Tail(args)

-----------------------------------------------------------------------------
\* clsx, the class-name normalization

\* str && (str += ' '); str += y
JoinSpace(str, y) == IF str # <<>> THEN str \o <<" ">> \o y ELSE y

\* String(n) for a number appended to a string.
NumText(n) == <<ToString(n)>>

RECURSIVE toVal(_)
RECURSIVE toValArray(_, _, _)
RECURSIVE toValObject(_, _, _)

\* The loop of toVal over an array: k is the index, str the accumulator.
toValArray(items, k, str) ==
    IF k > Len(items) THEN str
    ELSE LET y == IF Truthy(items[k]) THEN toVal(items[k]) ELSE <<>>
         IN toValArray(items, k + 1, IF y # <<>> THEN JoinSpace(str, y) ELSE str)

\* The for-in loop of toVal over a mapping: every key whose value is truthy.
toValObject(fields, k, str) ==
    IF k > Len(fields) THEN str
    ELSE toValObject(fields, k + 1,
                     IF Truthy(fields[k][2])
                     THEN JoinSpace(str, <<fields[k][1]>>) ELSE str)

\* toVal(mix): the text of one truthy clsx argument.
toVal(mix) ==
    CASE mix.kind = "string" -> mix.s
      [] mix.kind = "number" -> NumText(mix.n)
      [] mix.kind = "array" -> toValArray(mix.items, 1, <<>>)
      [] mix.kind = "object" -> toValObject(mix.fields, 1, <<>>)
      [] OTHER -> <<>>

\* clsx(...arguments): the texts of the truthy arguments, joined by spaces.
clsx(arguments) == Str(toValArray(arguments, 1, <<>>))

-----------------------------------------------------------------------------
\* The host framework

\* Variant: the element function builds a div whatever tag it was made for.
Tag_AlwaysDiv(t) == [kind |-> "tag", name |-> "div"]

\* The type argument of the host constructor.
Tag(t) == [kind |-> "tag", name |-> t]
Component(c) == [kind |-> "component", name |-> c]
Fragment == [kind |-> "fragment"]

\* The props of the node: the fields of config except the reserved key and
\* ref; positional children, when there are any, replace config.children.
NodeProps(config, children) ==
    LET own == IF config.kind = "object"
               THEN Without(Without(config, "key"), "ref") ELSE Obj(<<>>)
    IN  CASE Len(children) = 0 -> own
          [] Len(children) = 1 -> Spread(own, "children", children[1])
          [] OTHER -> Spread(own, "children", Arr(children))

\* React.createElement(type, config, ...children).
ReactCreateElement(type, config, children) ==
    [kind |-> "element",
     type |-> type,
     key |-> IF config.kind = "object" THEN Get(config, "key") ELSE Undefined,
     props |-> NodeProps(config, children)]

\* One call of the host constructor as the element function performs it:
\* what it passes, whether the properties object is the caller's own object
\* (own) or a new one, and the node that comes back.
HostCall(type, config, children, own) ==
    [type |-> type, config |-> config, children |-> children, own |-> own,
     node |-> ReactCreateElement(type, config, children)]

\* Variant: the host constructor is called a second time for the result.
Returned_CalledTwice(h) == [host |-> <<h, h>>, ret |-> h.node]

\* return React.createElement(...): one host call, its node handed back.
Returned(h) == [host |-> <<h>>, ret |-> h.node]

-----------------------------------------------------------------------------
\* The element functions

\* className.filter(Boolean).join(' '): a nested list or mapping is not
\* entered, it becomes the text of String(object).
FlatJoin(items) ==
    LET kept == SelectSeq(items, Truthy)
        text(e) == IF e.kind = "string" THEN e.s ELSE <<"[object Object]">>
        join[i \in 0..Len(kept)] ==
            IF i = 0 THEN <<>> ELSE JoinSpace(join[i - 1], text(kept[i]))
    IN  Str(join[Len(kept)])

\* Variant: a className list is filtered and joined, not normalized by clsx.
createElement_FlatList(tag, args) ==
    LET propsOrChildren == Param0(args)
        children == RestParams(args)
    IN  IF /\ Truthy(propsOrChildren)
           /\ TypeOf(propsOrChildren) = "object"
           /\ ~isValidElement(propsOrChildren)
           /\ ~isArray(propsOrChildren)
        THEN LET props == propsOrChildren
             IN  IF Get(props, "className") # Undefined
                 THEN LET c == Get(props, "className")
                          processedProps ==
                              Spread(props, "className",
                                     IF c.kind = "array" THEN FlatJoin(c.items)
                                     ELSE clsx(<<c>>))
                      IN  Returned(HostCall(Tag(tag), processedProps, children, FALSE))
                 ELSE Returned(HostCall(Tag(tag), props, children, TRUE))
        ELSE Returned(HostCall(Tag(tag), Undefined,
                               <<propsOrChildren>> \o children, FALSE))

\* Variant: className is normalized only when it is truthy (if (props.className)).
createElement_TruthyClassName(tag, args) ==
    LET propsOrChildren == Param0(args)
        children == RestParams(args)
    IN  IF /\ Truthy(propsOrChildren)
           /\ TypeOf(propsOrChildren) = "object"
           /\ ~isValidElement(propsOrChildren)
           /\ ~isArray(propsOrChildren)
        THEN LET props == propsOrChildren
             IN  IF Truthy(Get(props, "className"))
                 THEN LET processedProps ==
                              Spread(props, "className",
                                     clsx(<<Get(props, "className")>>))
                      IN  Returned(HostCall(Tag(tag), processedProps, children, FALSE))
                 ELSE Returned(HostCall(Tag(tag), props, children, TRUE))
        ELSE Returned(HostCall(Tag(tag), Undefined,
                               <<propsOrChildren>> \o children, FALSE))

\* Variant: the children are passed as one array, not spread.
createElement_ChildrenNotSpread(tag, args) ==
    LET propsOrChildren == Param0(args)
        children == RestParams(args)
    IN  IF /\ Truthy(propsOrChildren)
           /\ TypeOf(propsOrChildren) = "object"
           /\ ~isValidElement(propsOrChildren)
           /\ ~isArray(propsOrChildren)
        THEN LET props == propsOrChildren
             IN  IF Get(props, "className") # Undefined
                 THEN LET processedProps ==
                              Spread(props, "className",
                                     clsx(<<Get(props, "className")>>))
                      IN  Returned(HostCall(Tag(tag), processedProps,
                                            <<Arr(children)>>, FALSE))
                 ELSE Returned(HostCall(Tag(tag), props, <<Arr(children)>>, TRUE))
        ELSE Returned(HostCall(Tag(tag), Undefined,
                               <<propsOrChildren>> \o children, FALSE))

\* Variant: an undefined first argument is not passed on as a child.
createElement_SkipUndefined(tag, args) ==
    LET propsOrChildren == Param0(args)
        children == RestParams(args)
    IN  IF /\ Truthy(propsOrChildren)
           /\ TypeOf(propsOrChildren) = "object"
           /\ ~isValidElement(propsOrChildren)
           /\ ~isArray(propsOrChildren)
        THEN LET props == propsOrChildren
             IN  IF Get(props, "className") # Undefined
                 THEN LET processedProps ==
                              Spread(props, "className",
                                     clsx(<<Get(props, "className")>>))
                      IN  Returned(HostCall(Tag(tag), processedProps, children, FALSE))
                 ELSE Returned(HostCall(Tag(tag), props, children, TRUE))
        ELSE IF propsOrChildren = Undefined
             THEN Returned(HostCall(Tag(tag), Undefined, children, FALSE))
             ELSE Returned(HostCall(Tag(tag), Undefined,
                                    <<propsOrChildren>> \o children, FALSE))

\* Variant: className is normalized whether or not the caller gave one.
createElement_AlwaysClassName(tag, args) ==
    LET propsOrChildren == Param0(args)
        children == RestParams(args)
    IN  IF /\ Truthy(propsOrChildren)
           /\ TypeOf(propsOrChildren) = "object"
           /\ ~isValidElement(propsOrChildren)
           /\ ~isArray(propsOrChildren)
        THEN LET props == propsOrChildren
                 processedProps ==
                     Spread(props, "className", clsx(<<Get(props, "className")>>))
             IN  Returned(HostCall(Tag(tag), processedProps, children, FALSE))
        ELSE Returned(HostCall(Tag(tag), Undefined,
                               <<propsOrChildren>> \o children, FALSE))

\* Variant: a list given first is spread into the child list.
createElement_ArraySpread(tag, args) ==
    LET propsOrChildren == Param0(args)
        children == RestParams(args)
    IN  IF /\ Truthy(propsOrChildren)
           /\ TypeOf(propsOrChildren) = "object"
           /\ ~isValidElement(propsOrChildren)
           /\ ~isArray(propsOrChildren)
        THEN LET props == propsOrChildren
             IN  IF Get(props, "className") # Undefined
                 THEN LET processedProps ==
                              Spread(props, "className",
                                     clsx(<<Get(props, "className")>>))
                      IN  Returned(HostCall(Tag(tag), processedProps, children, FALSE))
                 ELSE Returned(HostCall(Tag(tag), props, children, TRUE))
        ELSE IF isArray(propsOrChildren)
             THEN Returned(HostCall(Tag(tag), Undefined,
                                    propsOrChildren.items \o children, FALSE))
             ELSE Returned(HostCall(Tag(tag), Undefined,
                                    <<propsOrChildren>> \o children, FALSE))

\* Variant: props.className = clsx(props.className), and props itself is
\* passed on.
createElement_AssignsClassName(tag, args) ==
    LET propsOrChildren == Param0(args)
        children == RestParams(args)
    IN  IF /\ Truthy(propsOrChildren)
           /\ TypeOf(propsOrChildren) = "object"
           /\ ~isValidElement(propsOrChildren)
           /\ ~isArray(propsOrChildren)
        THEN LET props == propsOrChildren
             IN  IF Get(props, "className") # Undefined
                 THEN LET processedProps ==
                              Spread(props, "className",
                                     clsx(<<Get(props, "className")>>))
                      IN  Returned(HostCall(Tag(tag), processedProps, children, TRUE))
                 ELSE Returned(HostCall(Tag(tag), props, children, TRUE))
        ELSE Returned(HostCall(Tag(tag), Undefined,
                               <<propsOrChildren>> \o children, FALSE))

\* Variant: when the first argument is a child, a plain object given second
\* is taken as the properties.
createElement_SecondAsProps(tag, args) ==
    LET propsOrChildren == Param0(args)
        children == RestParams(args)
    IN  IF /\ Truthy(propsOrChildren)
           /\ TypeOf(propsOrChildren) = "object"
           /\ ~isValidElement(propsOrChildren)
           /\ ~isArray(propsOrChildren)
        THEN LET props == propsOrChildren
             IN  IF Get(props, "className") # Undefined
                 THEN LET processedProps ==
                              Spread(props, "className",
                                     clsx(<<Get(props, "className")>>))
                      IN  Returned(HostCall(Tag(tag), processedProps, children, FALSE))
                 ELSE Returned(HostCall(Tag(tag), props, children, TRUE))
        ELSE IF /\ children # <<>>
                /\ TypeOf(Head(children)) = "object"
                /\ Head(children) # Null
                /\ ~isValidElement(Head(children))
                /\ ~isArray(Head(children))
             THEN Returned(HostCall(Tag(tag),
                                    Spread(Head(children), "className",
                                           clsx(<<Get(Head(children),
                                                      "className")>>)),
                                    <<propsOrChildren>> \o Tail(children),
                                    FALSE))
             ELSE Returned(HostCall(Tag(tag), Undefined,
                                    <<propsOrChildren>> \o children, FALSE))

\* Variant: className: clsx(tag, props.className).
createElement_AddsTagClass(tag, args) ==
    LET propsOrChildren == Param0(args)
        children == RestParams(args)
    IN  IF /\ Truthy(propsOrChildren)
           /\ TypeOf(propsOrChildren) = "object"
           /\ ~isValidElement(propsOrChildren)
           /\ ~isArray(propsOrChildren)
        THEN LET props == propsOrChildren
             IN  IF Get(props, "className") # Undefined
                 THEN LET processedProps ==
                              Spread(props, "className",
                                     clsx(<<Str(<<tag>>),
                                            Get(props, "className")>>))
                      IN  Returned(HostCall(Tag(tag), processedProps, children, FALSE))
                 ELSE Returned(HostCall(Tag(tag), props, children, TRUE))
        ELSE Returned(HostCall(Tag(tag), Undefined,
                               <<propsOrChildren>> \o children, FALSE))

\* htmlElements.ts: the function createElement(tag) returns, applied to args.
createElement(tag, args) ==
    LET propsOrChildren == Param0(args)
        children == RestParams(args)
    IN  IF /\ Truthy(propsOrChildren)
           /\ TypeOf(propsOrChildren) = "object"
           /\ ~isValidElement(propsOrChildren)
           /\ ~isArray(propsOrChildren)
        THEN LET props == propsOrChildren
             IN  IF Get(props, "className") # Undefined
                 THEN LET processedProps ==
                              Spread(props, "className",
                                     clsx(<<Get(props, "className")>>))
                      IN  Returned(HostCall(Tag(tag), processedProps, children, FALSE))
                 ELSE Returned(HostCall(Tag(tag), props, children, TRUE))
        ELSE Returned(HostCall(Tag(tag), Undefined,
                               <<propsOrChildren>> \o children, FALSE))

\* Object.keys(mapping).join(' '): every name, whatever its flag.
AllKeys(fields) ==
    LET join[i \in 0..Len(fields)] ==
            IF i = 0 THEN <<>> ELSE JoinSpace(join[i - 1], <<fields[i][1]>>)
    IN  Str(join[Len(fields)])

\* Variant: a className mapping contributes all its names, not only the flagged ones.
elementFunction_AllKeys(tag, args) ==
    LET propsOrChildren == Param0(args)
        children == RestParams(args)
    IN  IF /\ Truthy(propsOrChildren)
           /\ TypeOf(propsOrChildren) = "object"
           /\ ~isValidElement(propsOrChildren)
           /\ ~isArray(propsOrChildren)
        THEN LET props == propsOrChildren
             IN  IF Get(props, "className") # Undefined
                 THEN LET c == Get(props, "className")
                          processedProps ==
                              Spread(props, "className",
                                     IF c.kind = "object" THEN AllKeys(c.fields)
                                     ELSE clsx(<<c>>))
                      IN  Returned(HostCall(Tag(tag), processedProps, children, FALSE))
                 ELSE Returned(HostCall(Tag(tag), props, children, TRUE))
        ELSE Returned(HostCall(Tag(tag), Undefined,
                               <<propsOrChildren>> \o children, FALSE))

\* Variant: the cached function forwards className without normalizing it.
elementFunction_NoClsx(tag, args) ==
    LET propsOrChildren == Param0(args)
        children == RestParams(args)
    IN  IF /\ Truthy(propsOrChildren)
           /\ TypeOf(propsOrChildren) = "object"
           /\ ~isValidElement(propsOrChildren)
           /\ ~isArray(propsOrChildren)
        THEN Returned(HostCall(Tag(tag), propsOrChildren, children, TRUE))
        ELSE Returned(HostCall(Tag(tag), Undefined,
                               <<propsOrChildren>> \o children, FALSE))

\* Variant: the first child is passed after the rest instead of before it.
elementFunction_ChildLast(tag, args) ==
    LET propsOrChildren == Param0(args)
        children == RestParams(args)
    IN  IF /\ Truthy(propsOrChildren)
           /\ TypeOf(propsOrChildren) = "object"
           /\ ~isValidElement(propsOrChildren)
           /\ ~isArray(propsOrChildren)
        THEN LET props == propsOrChildren
             IN  IF Get(props, "className") # Undefined
                 THEN LET processedProps ==
                              Spread(props, "className",
                                     clsx(<<Get(props, "className")>>))
                      IN  Returned(HostCall(Tag(tag), processedProps, children, FALSE))
                 ELSE Returned(HostCall(Tag(tag), props, children, TRUE))
        ELSE Returned(HostCall(Tag(tag), Undefined,
                               children \o <<propsOrChildren>>, FALSE))

\* utils.ts: the closure elementFunction of createMemoizedElement(tag).
elementFunction(tag, args) ==
    LET propsOrChildren == Param0(args)
        children == RestParams(args)
    IN  IF /\ Truthy(propsOrChildren)
           /\ TypeOf(propsOrChildren) = "object"
           /\ ~isValidElement(propsOrChildren)
           /\ ~isArray(propsOrChildren)
        THEN LET props == propsOrChildren
             IN  IF Get(props, "className") # Undefined
                 THEN LET processedProps ==
                              Spread(props, "className",
                                     clsx(<<Get(props, "className")>>))
                      IN  Returned(HostCall(Tag(tag), processedProps, children, FALSE))
                 ELSE Returned(HostCall(Tag(tag), props, children, TRUE))
        ELSE Returned(HostCall(Tag(tag), Undefined,
                               <<propsOrChildren>> \o children, FALSE))

\* Variant: fragment normalizes className as the element functions do.
fragment_WithClsx(args) ==
    LET propsOrChildren == Param0(args)
        children == RestParams(args)
    IN  IF /\ Truthy(propsOrChildren)
           /\ TypeOf(propsOrChildren) = "object"
           /\ ~isValidElement(propsOrChildren)
           /\ ~isArray(propsOrChildren)
        THEN IF Get(propsOrChildren, "className") # Undefined
             THEN Returned(HostCall(Fragment,
                                    Spread(propsOrChildren, "className",
                                           clsx(<<Get(propsOrChildren, "className")>>)),
                                    children, FALSE))
             ELSE Returned(HostCall(Fragment, propsOrChildren, children, TRUE))
        ELSE Returned(HostCall(Fragment, Undefined,
                               <<propsOrChildren>> \o children, FALSE))

\* htmlElements.ts: fragment.
fragment(args) ==
    LET propsOrChildren == Param0(args)
        children == RestParams(args)
    IN  IF /\ Truthy(propsOrChildren)
           /\ TypeOf(propsOrChildren) = "object"
           /\ ~isValidElement(propsOrChildren)
           /\ ~isArray(propsOrChildren)
        THEN Returned(HostCall(Fragment, propsOrChildren, children, TRUE))
        ELSE Returned(HostCall(Fragment, Undefined,
                               <<propsOrChildren>> \o children, FALSE))

\* Variant: the wrapper normalizes className as the element functions do.
asComponentFn_WithClsx(Comp, args) ==
    LET propsOrChildren == Param0(args)
        children == RestParams(args)
    IN  IF /\ Truthy(propsOrChildren)
           /\ TypeOf(propsOrChildren) = "object"
           /\ ~isValidElement(propsOrChildren)
           /\ ~isArray(propsOrChildren)
        THEN LET props == propsOrChildren
             IN  IF Get(props, "className") # Undefined
                 THEN Returned(HostCall(Component(Comp),
                                        Spread(props, "className",
                                               clsx(<<Get(props, "className")>>)),
                                        children, FALSE))
                 ELSE Returned(HostCall(Component(Comp), props, children, TRUE))
        ELSE Returned(HostCall(Component(Comp), Obj(<<>>),
                               <<propsOrChildren>> \o children, FALSE))

\* The wrapper asComponentFn(Component) returns, applied to args.
asComponentFn(Comp, args) ==
    LET propsOrChildren == Param0(args)
        children == RestParams(args)
    IN  IF /\ Truthy(propsOrChildren)
           /\ TypeOf(propsOrChildren) = "object"
           /\ ~isValidElement(propsOrChildren)
           /\ ~isArray(propsOrChildren)
        THEN LET props == propsOrChildren
             IN  Returned(HostCall(Component(Comp), props, children, TRUE))
        ELSE Returned(HostCall(Component(Comp), Obj(<<>>),
                               <<propsOrChildren>> \o children, FALSE))

\* The wrapper asComponentFnWithChildren(Component) returns, applied to args.
asComponentFnWithChildren(Comp, args) ==
    LET propsOrChildren == Param0(args)
        children == RestParams(args)
    IN  IF /\ Truthy(propsOrChildren)
           /\ TypeOf(propsOrChildren) = "object"
           /\ ~isValidElement(propsOrChildren)
           /\ ~isArray(propsOrChildren)
        THEN LET props == propsOrChildren
             IN  Returned(HostCall(Component(Comp), props, children, TRUE))
        ELSE Returned(HostCall(Component(Comp),
                               Obj(<<<<"children", propsOrChildren>>>>),
                               children, FALSE))

-----------------------------------------------------------------------------
\* The element cache

\* Variant: the cache is not consulted; every request stores a new function.
createMemoizedElement_NoHit(cache, allocated, tag) ==
    LET newFunction == Len(allocated) + 1
    IN  [cache |-> (tag :> newFunction) @@ cache,
         fns |-> Append(allocated, tag),
         ret |-> newFunction]

\* Variant: a miss on a non-empty cache hands out a function cached for
\* some tag instead of making one.
createMemoizedElement_AnyCached(cache, allocated, tag) ==
    IF tag \in DOMAIN cache
    THEN [cache |-> cache, fns |-> allocated, ret |-> cache[tag]]
    ELSE IF DOMAIN cache # {}
         THEN LET other == CHOOSE t \in DOMAIN cache : TRUE
              IN  [cache |-> (tag :> cache[other]) @@ cache,
                   fns |-> allocated,
                   ret |-> cache[other]]
         ELSE [cache |-> (tag :> 1) @@ cache,
               fns |-> Append(allocated, tag),
               ret |-> Len(allocated) + 1]

\* createMemoizedElement(tag) on a cache and the functions allocated so far;
\* a function instance is its index in fns, which records its tag.
createMemoizedElement(cache, allocated, tag) ==
    IF tag \in DOMAIN cache
    THEN [cache |-> cache, fns |-> allocated, ret |-> cache[tag]]
    ELSE LET newFunction == Len(allocated) + 1
         IN  [cache |-> (tag :> newFunction) @@ cache,
              fns |-> Append(allocated, tag),
              ret |-> newFunction]

RECURSIVE createElements_FreshLoop(_, _, _, _, _)

\* Variant: createElements makes a new function for every tag of the list
\* without looking in the cache.
createElements_FreshLoop(cache, allocated, tags, i, record) ==
    IF i > Len(tags)
    THEN [cache |-> cache, fns |-> allocated, ret |-> record]
    ELSE LET r == createMemoizedElement_NoHit(cache, allocated, tags[i])
         IN  createElements_FreshLoop(r.cache, r.fns, tags, i + 1,
                                      (tags[i] :> r.ret) @@ record)

\* Variant of createElements(tags) built on that loop.
createElements_Fresh(cache, allocated, tags) ==
    createElements_FreshLoop(cache, allocated, tags, 1, <<>>)

RECURSIVE createElementsLoop(_, _, _, _, _)

\* tags.forEach((tag) => { elements[tag] = createMemoizedElement(tag) })
createElementsLoop(cache, allocated, tags, i, record) ==
    IF i > Len(tags)
    THEN [cache |-> cache, fns |-> allocated, ret |-> record]
    ELSE LET r == createMemoizedElement(cache, allocated, tags[i])
         IN  createElementsLoop(r.cache, r.fns, tags, i + 1,
                                (tags[i] :> r.ret) @@ record)

\* createElements(tags)
createElements(cache, allocated, tags) ==
    createElementsLoop(cache, allocated, tags, 1, <<>>)

\* conditional(condition, element, fallback): a parameter the call leaves
\* out is undefined.
conditional(args) ==
    LET condition == args[1]
        element == args[2]
        fallback == IF Len(args) >= 3 THEN args[3] ELSE Undefined
    IN  IF Truthy(condition)
        THEN element
        ELSE IF Truthy(fallback) THEN fallback ELSE Null

\* The string React keeps as a node's key: '' + key.
KeyText(key) == IF key.kind = "number" THEN Str(NumText(key.n)) ELSE key

RECURSIVE AssignFields(_, _, _)
\* Object.assign(o, {...fields}), from field i on.
AssignFields(o, fields, i) ==
    IF i > Len(fields) THEN o
    ELSE AssignFields(Spread(o, fields[i][1], fields[i][2]), fields, i + 1)

\* React.cloneElement(element, config): a new node of the same type with
\* the fields of config laid over the props; a key in config replaces the
\* node's key.
ReactCloneElement(element, config) ==
    [kind |-> "element",
     type |-> element.type,
     key |-> IF Get(config, "key") # Undefined
             THEN KeyText(Get(config, "key")) ELSE element.key,
     props |-> AssignFields(element.props,
                            Without(Without(config, "key"), "ref").fields, 1)]

\* The callbacks callers pass as renderFn: (item) => li(item) and
\* (item) => li({key: 'own'}, item).
ApplyRenderFn(renderFn, item, index) ==
    IF renderFn = "li"
    THEN createElement("li", <<item>>).ret
    ELSE createElement("li", <<Obj(<<<<"key", Str(<<"own">>)>>>>), item>>).ret

\* The callbacks callers pass as keyFn: (item) => item and
\* (item, index) => index * 10.
ApplyKeyFn(keyFn, item, index) ==
    IF keyFn = "item" THEN item ELSE Num(index * 10)

\* The keyFn argument of a call that gives none.
NoKeyFn == "undefined"

RECURSIVE mapWithKeys_IndexKeysFrom(_, _, _, _, _)
\* Variant: the key is always the index.
mapWithKeys_IndexKeysFrom(items, renderFn, keyFn, i, done) ==
    IF i > Len(items) THEN done
    ELSE LET item == items[i]
             index == i - 1
             key == Num(index)
             rendered == ApplyRenderFn(renderFn, item, index)
             config == Obj(<<<<"key", key>>>>)
         IN  mapWithKeys_IndexKeysFrom(items, renderFn, keyFn, i + 1,
                 [calls |-> done.calls
                        \o <<[fn |-> "renderFn", item |-> item,
                              index |-> index]>>,
                  host |-> Append(done.host,
                                  [element |-> rendered, config |-> config]),
                  ret |-> Append(done.ret,
                                 ReactCloneElement(rendered, config))])

RECURSIVE mapWithKeysFrom(_, _, _, _, _)
\* items.map((item, index) => ...) from position i on: the callback takes
\* the key from keyFn when there is one and from the index otherwise, then
\* clones what renderFn returns with that key.
mapWithKeysFrom(items, renderFn, keyFn, i, done) ==
    IF i > Len(items) THEN done
    ELSE LET item == items[i]
             index == i - 1
             key == IF keyFn # NoKeyFn
                    THEN ApplyKeyFn(keyFn, item, index) ELSE Num(index)
             keyCalls == IF keyFn # NoKeyFn
                         THEN <<[fn |-> "keyFn", item |-> item,
                                 index |-> index]>>
                         ELSE <<>>
             rendered == ApplyRenderFn(renderFn, item, index)
             config == Obj(<<<<"key", key>>>>)
         IN  mapWithKeysFrom(items, renderFn, keyFn, i + 1,
                 [calls |-> done.calls \o keyCalls
                        \o <<[fn |-> "renderFn", item |-> item,
                              index |-> index]>>,
                  host |-> Append(done.host,
                                  [element |-> rendered, config |-> config]),
                  ret |-> Append(done.ret,
                                 ReactCloneElement(rendered, config))])

\* Variant: keyFn is never called.
mapWithKeys_IndexKeys(items, renderFn, keyFn) ==
    mapWithKeys_IndexKeysFrom(items, renderFn, keyFn, 1,
                              [calls |-> <<>>, host |-> <<>>, ret |-> <<>>])

\* mapWithKeys(items, renderFn, keyFn): the callbacks called, the clone
\* calls made and the list returned.
mapWithKeys(items, renderFn, keyFn) ==
    mapWithKeysFrom(items, renderFn, keyFn, 1,
                    [calls |-> <<>>, host |-> <<>>, ret |-> <<>>])

-----------------------------------------------------------------------------
\* The callers' inputs

Tags == {"div", "span"}

PlainComponents == {"MyComponent"}
ChildrenComponents == {"Container"}

Text == Str(<<"Hello">>)

\* h1('Title'), a node built by another element function.
TitleNode == createElement("h1", <<Str(<<"Title">>)>>).ret

\* p('Body')
BodyNode == createElement("p", <<Str(<<"Body">>)>>).ret

\* className values in the shapes clsx accepts.
ClassNames ==
    { Undefined, Null, Str(<<>>), Str(<<"container">>),
      Str(<<"a", " ", "b">>),
      Arr(<<Str(<<"a">>), Bool(FALSE), Str(<<"b">>)>>),
      Obj(<<<<"a", Bool(TRUE)>>, <<"b", Bool(FALSE)>>>>),
      Arr(<<Str(<<"base">>),
            Obj(<<<<"cond", Bool(TRUE)>>, <<"hidden", Bool(FALSE)>>>>),
            Str(<<"extra">>)>>),
      Arr(<<Str(<<"a">>), Null, Undefined, Str(<<>>),
            Arr(<<Str(<<"b">>), Arr(<<Str(<<"c">>)>>)>>)>>),
      Obj(<<<<"zeta", Bool(TRUE)>>, <<"hidden", Bool(FALSE)>>,
            <<"alpha", Bool(TRUE)>>>>) }

\* Properties objects without a className field.
BareProps ==
    { Obj(<<>>),
      Obj(<<<<"id", Str(<<"main">>)>>>>),
      Obj(<<<<"key", Str(<<"k">>)>>>>),
      Obj(<<<<"children", Text>>>>),
      Obj(<<<<"title", Text>>, <<"count", Num(5)>>>>) }

\* Properties objects that define a className field.
ClassProps ==
    { Obj(<<<<"className", c>>>>) : c \in ClassNames }
    \cup { Obj(<<<<"className", c>>, <<"id", Str(<<"main">>)>>>>) : c \in ClassNames }

PropsObjects == BareProps \cup ClassProps

\* First arguments that are not properties objects.
ChildFirstArgs ==
    { Undefined, Null, Bool(FALSE), Bool(TRUE), Num(0), Num(5), Str(<<>>),
      Text, TitleNode, BodyNode, Arr(<<>>), Arr(<<Text, TitleNode>>) }

FirstArgs == PropsObjects \cup ChildFirstArgs

\* Values of the arguments after the first.
RestValues ==
    { Text, Undefined, TitleNode, BodyNode, Arr(<<Text, TitleNode>>),
      Obj(<<<<"className", Str(<<"x">>)>>>>),
      Obj(<<<<"className", Arr(<<Str(<<"a">>), Bool(FALSE)>>)>>>>) }

\* export const name = createElement('tag'), for every element export.
ElementExports ==
    {
      <<"title", "title">>, <<"base", "base">>, <<"link", "link">>,
      <<"meta", "meta">>, <<"style", "style">>, <<"address", "address">>,
      <<"article", "article">>, <<"aside", "aside">>,
      <<"footer", "footer">>, <<"header", "header">>, <<"h1", "h1">>,
      <<"h2", "h2">>, <<"h3", "h3">>, <<"h4", "h4">>, <<"h5", "h5">>,
      <<"h6", "h6">>, <<"hgroup", "hgroup">>, <<"main", "main">>,
      <<"nav", "nav">>, <<"section", "section">>,
      <<"blockquote", "blockquote">>, <<"dd", "dd">>, <<"div", "div">>,
      <<"dl", "dl">>, <<"dt", "dt">>, <<"figcaption", "figcaption">>,
      <<"figure", "figure">>, <<"hr", "hr">>, <<"li", "li">>,
      <<"ol", "ol">>, <<"p", "p">>, <<"pre", "pre">>, <<"ul", "ul">>,
      <<"a", "a">>, <<"abbr", "abbr">>, <<"b", "b">>, <<"bdi", "bdi">>,
      <<"bdo", "bdo">>, <<"br", "br">>, <<"cite", "cite">>,
      <<"code", "code">>, <<"data", "data">>, <<"dfn", "dfn">>,
      <<"em", "em">>, <<"i", "i">>, <<"kbd", "kbd">>, <<"mark", "mark">>,
      <<"q", "q">>, <<"rb", "rb">>, <<"rp", "rp">>, <<"rt", "rt">>,
      <<"rtc", "rtc">>, <<"ruby", "ruby">>, <<"s", "s">>,
      <<"samp", "samp">>, <<"small", "small">>, <<"span", "span">>,
      <<"strong", "strong">>, <<"sub", "sub">>, <<"sup", "sup">>,
      <<"time", "time">>, <<"u", "u">>, <<"var_", "var">>, <<"wbr", "wbr">>,
      <<"area", "area">>, <<"audio", "audio">>, <<"img", "img">>,
      <<"map", "map">>, <<"track", "track">>, <<"video", "video">>,
      <<"embed", "embed">>, <<"iframe", "iframe">>, <<"object", "object">>,
      <<"param", "param">>, <<"picture", "picture">>,
      <<"source", "source">>, <<"canvas", "canvas">>,
      <<"noscript", "noscript">>, <<"script", "script">>, <<"del", "del">>,
      <<"ins", "ins">>, <<"caption", "caption">>, <<"col", "col">>,
      <<"colgroup", "colgroup">>, <<"table", "table">>,
      <<"tbody", "tbody">>, <<"td", "td">>, <<"tfoot", "tfoot">>,
      <<"th", "th">>, <<"thead", "thead">>, <<"tr", "tr">>,
      <<"button", "button">>, <<"datalist", "datalist">>,
      <<"fieldset", "fieldset">>, <<"form", "form">>, <<"input", "input">>,
      <<"label", "label">>, <<"legend", "legend">>, <<"meter", "meter">>,
      <<"optgroup", "optgroup">>, <<"option", "option">>,
      <<"output", "output">>, <<"progress", "progress">>,
      <<"select", "select">>, <<"textarea", "textarea">>,
      <<"details", "details">>, <<"dialog", "dialog">>, <<"menu", "menu">>,
      <<"menuitem", "menuitem">>, <<"summary", "summary">>,
      <<"slot", "slot">>, <<"template", "template">>, <<"svg", "svg">>,
      <<"circle", "circle">>, <<"rect", "rect">>, <<"path", "path">>,
      <<"line", "line">>, <<"polygon", "polygon">>,
      <<"polyline", "polyline">>, <<"ellipse", "ellipse">>, <<"g", "g">>,
      <<"text", "text">>, <<"tspan", "tspan">>, <<"math", "math">>,
      <<"mrow", "mrow">>, <<"mfrac", "mfrac">>, <<"msqrt", "msqrt">>,
      <<"mroot", "mroot">>, <<"msub", "msub">>, <<"msup", "msup">>,
      <<"msubsup", "msubsup">>, <<"munder", "munder">>,
      <<"mover", "mover">>, <<"munderover", "munderover">>,
      <<"mmultiscripts", "mmultiscripts">>, <<"mtable", "mtable">>,
      <<"mtr", "mtr">>, <<"mtd", "mtd">>, <<"maction", "maction">>,
      <<"merror", "merror">>, <<"mpadded", "mpadded">>,
      <<"mphantom", "mphantom">>, <<"mspace", "mspace">>,
      <<"mstyle", "mstyle">>, <<"ms", "ms">>, <<"mtext", "mtext">>,
      <<"mn", "mn">>, <<"mo", "mo">>, <<"mi", "mi">>
    }

\* The names the test suite expects the module to export.
expectedElements ==
    {
      "title", "base", "link", "meta", "style", "address", "article",
      "aside", "footer", "header", "h1", "h2", "h3", "h4", "h5", "h6",
      "hgroup", "main", "nav", "section", "blockquote", "dd", "div", "dl",
      "dt", "figcaption", "figure", "hr", "li", "ol", "p", "pre", "ul", "a",
      "abbr", "b", "bdi", "bdo", "br", "cite", "code", "data", "dfn", "em",
      "i", "kbd", "mark", "q", "rb", "rp", "rt", "rtc", "ruby", "s", "samp",
      "small", "span", "strong", "sub", "sup", "time", "u", "var_", "wbr",
      "area", "audio", "img", "map", "track", "video", "embed", "iframe",
      "object", "param", "picture", "source", "canvas", "noscript",
      "script", "del", "ins", "caption", "col", "colgroup", "table",
      "tbody", "td", "tfoot", "th", "thead", "tr", "button", "datalist",
      "fieldset", "form", "input", "label", "legend", "meter", "optgroup",
      "option", "output", "progress", "select", "textarea", "details",
      "dialog", "menu", "menuitem", "summary", "slot", "template", "svg",
      "circle", "rect", "path", "line", "polygon", "polyline", "ellipse",
      "g", "text", "tspan", "math", "mrow", "mfrac", "msqrt", "mroot",
      "msub", "msup", "msubsup", "munder", "mover", "munderover",
      "mmultiscripts", "mtable", "mtr", "mtd", "maction", "merror",
      "mpadded", "mphantom", "mspace", "mstyle", "ms", "mtext", "mn", "mo",
      "mi", "fragment"
    }

\* Object.keys(elements): the names htmlElements.ts exports.
ExportedNames == {e[1] : e \in ElementExports} \cup {"fragment"}

\* Variant: every export is made for the tag its name spells.
ExportedTag_SameAsName(name) == name

\* The tag the export called name was made with.
ExportedTag(name) == (CHOOSE e \in ElementExports : e[1] = name)[2]

\* elements[name](...args): the exported function is called.
Exported(name, args) ==
    IF name = "fragment"
    THEN fragment(args)
    ELSE createElement(ExportedTag(name), args)

\* Argument lists the exports are tried with.
ExportArgs ==
    { <<>>, <<Text>>, <<Obj(<<<<"className", Str(<<"container">>)>>>>), Text>> }

\* The items, render callbacks and key callbacks mapWithKeys is called with.
Items == {Str(<<"a">>), Str(<<"b">>)}
RenderFns == {"li", "keyedLi"}
KeyFns == {NoKeyFn, "item", "index10"}

\* Nodes given as the fallback of conditional.
Fallbacks ==
    { Undefined, Null, Num(0), Num(5), Str(<<>>), Text, BodyNode }

\* Argument lists of conditional, with and without a fallback.
ConditionalArgs ==
    { <<Bool(c), e>> : c \in BOOLEAN, e \in {Text, TitleNode} }
    \cup { <<Bool(c), e, f>> : c \in BOOLEAN, e \in {Text, TitleNode},
                               f \in Fallbacks }

RECURSIVE SeqsUpTo(_, _)
SeqsUpTo(S, n) ==
    IF n = 0 THEN {<<>>}
    ELSE LET shorter == SeqsUpTo(S, n - 1)
         IN  shorter \cup { Append(q, x) : q \in shorter, x \in S }

\* The argument lists of one call: none, or a first argument and the rest.
ArgLists ==
    {<<>>} \cup { <<a>> \o r : a \in FirstArgs, r \in SeqsUpTo(RestValues, MaxRest) }

TagLists == SeqsUpTo(Tags, MaxTagList)

-----------------------------------------------------------------------------
\* State
\*   elementCache  the Map of utils.ts: tag -> element function
\*   fns           the element functions allocated so far; a function instance
\*                 is its index, fns[f] the tag its closure captured
\*   firstFn       history: the function first handed out for each tag
\*   last          the operation that finished last, with what it passed to
\*                 the host constructor and what it returned, until the
\*                 caller takes it

None == [op |-> "none"]

\* A finished call of an element function, fragment or wrapper: of is the tag
\* or component the function was made for, fn the instance (0: not cached).
Call(op, of, fn, args, r) ==
    [op |-> op, of |-> of, fn |-> fn, args |-> args,
     host |-> r.host, ret |-> r.ret]

\* What the host constructor throws when it fails.
HostError == [kind |-> "error", from |-> "React.createElement"]

\* A call that ended in an error: by is the function called; the host calls
\* made have no node.
Threw(op, of, fn, args, r, error) ==
    [op |-> "threw", by |-> op, of |-> of, fn |-> fn, args |-> args,
     host |-> [i \in 1..Len(r.host) |->
                  [type |-> r.host[i].type, config |-> r.host[i].config,
                   children |-> r.host[i].children, own |-> r.host[i].own]],
     error |-> error]

\* Variant: the function catches the host's error and returns null.
Completed_Caught(op, of, fn, args, r, hostThrows) ==
    IF hostThrows
    THEN Call(op, of, fn, args, [host |-> r.host, ret |-> Null])
    ELSE Call(op, of, fn, args, r)

\* The outcome of a call whose host constructor call throws or returns: the
\* host call is the returned expression, outside any try, so its error is
\* the call's error.
Completed(op, of, fn, args, r, hostThrows) ==
    IF hostThrows
    THEN Threw(op, of, fn, args, r, HostError)
    ELSE Call(op, of, fn, args, r)

\* The finished call, with the environment's choice whether the host threw.
Outcome(op, of, fn, args, r, hostThrows) ==
    [hostThrew |-> hostThrows] @@ Completed(op, of, fn, args, r, hostThrows)

\* The invocations of createMemoizedElement that may be in progress at once.
Callers == {1, 2}

\* An invocation that has not started.
NotStarted == [pc |-> "idle"]

Init ==
    /\ elementCache = <<>>
    /\ fns = <<>>
    /\ firstFn = <<>>
    /\ last = None
    /\ race = [c \in Callers |-> NotStarted]

\* The tags of tags not yet in first get the function the cache now holds.
Remember(first, cache, tags) ==
    [t \in DOMAIN first \cup tags |->
        IF t \in DOMAIN first THEN first[t] ELSE cache[t]]

\* createMemoizedElement(tag) is called.
CreateMemoizedElement(tag) ==
    LET r == createMemoizedElement(elementCache, fns, tag)
    IN  /\ last = None
        /\ Len(r.fns) <= MaxFns
        /\ elementCache' = r.cache
        /\ fns' = r.fns
        /\ firstFn' = Remember(firstFn, r.cache, {tag})
        /\ last' = [op |-> "createMemoizedElement", tag |-> tag, fn |-> r.ret]
        /\ UNCHANGED race

\* createElements(tags) is called.
CreateElements(tags) ==
    LET r == createElements(elementCache, fns, tags)
    IN  /\ last = None
        /\ Len(r.fns) <= MaxFns
        /\ elementCache' = r.cache
        /\ fns' = r.fns
        /\ firstFn' = Remember(firstFn, r.cache, {tags[i] : i \in 1..Len(tags)})
        /\ last' = [op |-> "createElements", tags |-> tags, elements |-> r.ret]
        /\ UNCHANGED race

\* Variant: an element function of htmlElements.ts enters itself in the
\* cache when it is called.
CallElement_Caches(tag, args, hostThrows) ==
    /\ last = None
    /\ last' = Outcome("createElement", tag, 0, args, createElement(tag, args),
                       hostThrows)
    /\ elementCache' = (tag :> Len(fns) + 1) @@ elementCache
    /\ fns' = Append(fns, tag)
    /\ UNCHANGED <<firstFn, race>>

\* An element function of htmlElements.ts (div, span, ...) is called.
CallElement(tag, args, hostThrows) ==
    /\ last = None
    /\ last' = Outcome("createElement", tag, 0, args, createElement(tag, args),
                       hostThrows)
    /\ UNCHANGED <<elementCache, fns, firstFn, race>>

\* Variant: the function keeps the node it last returned in the cache map.
CallMemoized_KeepsNode(fn, args, hostThrows) ==
    LET r == elementFunction(fns[fn], args)
    IN  /\ last = None
        /\ last' = Outcome("elementFunction", fns[fn], fn, args, r, hostThrows)
        /\ elementCache' = ("lastNode" :> r.ret) @@ elementCache
        /\ UNCHANGED <<fns, firstFn, race>>

\* A function handed out by createMemoizedElement is called.
CallMemoized(fn, args, hostThrows) ==
    /\ last = None
    /\ last' = Outcome("elementFunction", fns[fn], fn, args,
                       elementFunction(fns[fn], args), hostThrows)
    /\ UNCHANGED <<elementCache, fns, firstFn, race>>

\* An export of htmlElements.ts is called through the module's namespace.
CallExport(name, args, hostThrows) ==
    /\ last = None
    /\ last' = [name |-> name]
                    @@ Outcome("export", name, 0, args, Exported(name, args),
                               hostThrows)
    /\ UNCHANGED <<elementCache, fns, firstFn, race>>

\* fragment is called.
CallFragment(args, hostThrows) ==
    /\ last = None
    /\ last' = Outcome("fragment", "Fragment", 0, args, fragment(args),
                       hostThrows)
    /\ UNCHANGED <<elementCache, fns, firstFn, race>>

\* A wrapper made by asComponentFn is called.
CallComponentFn(Comp, args, hostThrows) ==
    /\ last = None
    /\ last' = Outcome("asComponentFn", Comp, 0, args,
                       asComponentFn(Comp, args), hostThrows)
    /\ UNCHANGED <<elementCache, fns, firstFn, race>>

\* A wrapper made by asComponentFnWithChildren is called.
CallComponentFnWithChildren(Comp, args, hostThrows) ==
    /\ last = None
    /\ last' = Outcome("asComponentFnWithChildren", Comp, 0, args,
                       asComponentFnWithChildren(Comp, args), hostThrows)
    /\ UNCHANGED <<elementCache, fns, firstFn, race>>

\* conditional is called.
CallConditional(args) ==
    /\ last = None
    /\ last' = [op |-> "conditional", args |-> args, ret |-> conditional(args)]
    /\ UNCHANGED <<elementCache, fns, firstFn, race>>

\* mapWithKeys is called.
CallMapWithKeys(items, renderFn, keyFn) ==
    LET r == mapWithKeys(items, renderFn, keyFn)
    IN  /\ last = None
        /\ last' = [op |-> "mapWithKeys", items |-> items,
                    renderFn |-> renderFn, keyFn |-> keyFn,
                    calls |-> r.calls, host |-> r.host, ret |-> r.ret]
        /\ UNCHANGED <<elementCache, fns, firstFn, race>>

\* The caller takes what the operation returned (keeps the function, renders
\* or nests the node); the library keeps nothing of the call.
Take ==
    /\ last # None
    /\ last' = None
    /\ UNCHANGED <<elementCache, fns, firstFn, race>>

\* The caller starts an operation once it has taken the previous result.
Idle == last = None

Next ==
    \/ Idle /\ \E tag \in Tags : CreateMemoizedElement(tag)
    \/ Idle /\ \E tags \in TagLists : CreateElements(tags)
    \/ Idle /\ \E tag \in Tags, args \in ArgLists, hostThrows \in BOOLEAN :
                   CallElement(tag, args, hostThrows)
    \/ Idle /\ \E fn \in 1..Len(fns), args \in ArgLists, hostThrows \in BOOLEAN :
                   CallMemoized(fn, args, hostThrows)
    \/ Idle /\ \E name \in ExportedNames, args \in ExportArgs,
                      hostThrows \in BOOLEAN :
                   CallExport(name, args, hostThrows)
    \/ Idle /\ \E args \in ArgLists, hostThrows \in BOOLEAN :
                   CallFragment(args, hostThrows)
    \/ Idle /\ \E Comp \in PlainComponents, args \in ArgLists,
                      hostThrows \in BOOLEAN :
                   CallComponentFn(Comp, args, hostThrows)
    \/ Idle /\ \E Comp \in ChildrenComponents, args \in ArgLists,
                      hostThrows \in BOOLEAN :
                   CallComponentFnWithChildren(Comp, args, hostThrows)
    \/ Idle /\ \E args \in ConditionalArgs : CallConditional(args)
    \/ Idle /\ \E items \in SeqsUpTo(Items, MaxItems), renderFn \in RenderFns,
                      keyFn \in KeyFns :
                   CallMapWithKeys(items, renderFn, keyFn)
    \/ Take

Spec == Init /\ [][Next]_vars

-----------------------------------------------------------------------------
\* createMemoizedElement taken in two steps, the lookup and the store, so that
\* invocations can interleave between them.

\* Variant: set keeps an entry that is already there.
StoreEntry_KeepEarlier(cache, tag, fn) ==
    IF tag \in DOMAIN cache THEN cache ELSE (tag :> fn) @@ cache

\* elementCache.set(tag, elementFunction)
StoreEntry(cache, tag, fn) ==
    (tag :> fn) @@ [k \in DOMAIN cache \ {tag} |-> cache[k]]

\* The invocations that have missed the cache and not yet stored.
Missed == {c \in Callers : race[c].pc = "missed"}

\* if (elementCache.has(tag)) return elementCache.get(tag)
RaceLookup(c, tag) ==
    /\ race[c].pc = "idle"
    /\ IF tag \in DOMAIN elementCache
       THEN race' = [race EXCEPT ![c] = [pc |-> "done", tag |-> tag,
                                         fn |-> elementCache[tag],
                                         stored |-> FALSE]]
       ELSE /\ Len(fns) + Cardinality(Missed) < MaxFns
            /\ race' = [race EXCEPT ![c] = [pc |-> "missed", tag |-> tag]]
    /\ UNCHANGED <<elementCache, fns, firstFn, last>>

\* const elementFunction = ...; elementCache.set(tag, elementFunction);
\* return elementFunction
RaceStore(c) ==
    LET tag == race[c].tag
        newFunction == Len(fns) + 1
    IN  /\ race[c].pc = "missed"
        /\ fns' = Append(fns, tag)
        /\ elementCache' = StoreEntry(elementCache, tag, newFunction)
        /\ race' = [race EXCEPT ![c] = [pc |-> "done", tag |-> tag,
                                        fn |-> newFunction, stored |-> TRUE]]
        /\ UNCHANGED <<firstFn, last>>

\* The caller takes the function the invocation returned.
RaceReturn(c) ==
    /\ race[c].pc = "done"
    /\ race' = [race EXCEPT ![c] = NotStarted]
    /\ UNCHANGED <<elementCache, fns, firstFn, last>>

NextRace ==
    \/ \E c \in Callers, tag \in Tags : RaceLookup(c, tag)
    \/ \E c \in Callers : RaceStore(c)
    \/ \E c \in Callers : RaceReturn(c)

SpecRace == Init /\ [][NextRace]_vars

-----------------------------------------------------------------------------
\* What a finished call shows

\* The call of an element function for a tag, cached or not.
IsElementCall == last.op \in {"createElement", "elementFunction"}

\* A non-null object that is neither an element node nor an array.
PlainObject(v) ==
    /\ v.kind \in {"object", "array", "element"}
    /\ v.kind # "element"
    /\ v.kind # "array"

\* The first argument was taken as the properties object: the host got an
\* object as properties and the arguments after the first as children.
TreatedAsProps ==
    /\ last.host[1].config.kind = "object"
    /\ last.host[1].children = Tail(last.args)

\* The first argument was taken as the first child: the host got no
\* properties and every argument, the first included, as children.
TreatedAsChild ==
    /\ last.host[1].config = Undefined
    /\ last.host[1].children = last.args

\* C1: an element function treats its first argument as the properties
\* object if and only if the argument is a non-null object that is neither a
\* valid element node nor an array; any other first argument (undefined,
\* null, false, 0, '', a string, a number, a node, an array) is the first
\* child.
C1_Classification ==
    (IsElementCall /\ last.args # <<>>) =>
        IF PlainObject(Head(last.args))
        THEN TreatedAsProps /\ ~TreatedAsChild
        ELSE TreatedAsChild /\ ~TreatedAsProps

\* An element function got an array first and passed it on as a child.
C1_Witness ==
    /\ IsElementCall
    /\ last.args # <<>>
    /\ Head(last.args) = Arr(<<Text, TitleNode>>)
    /\ TreatedAsChild

\* C2 as stated: whenever the properties object defines className, whatever
\* its value, the host gets the object with className replaced by the
\* normalized string, and the rest as children.
C2_AnyClassNameNormalized ==
    (IsElementCall /\ last.args # <<>> /\ PlainObject(Head(last.args))
        /\ HasKey(Head(last.args), "className")) =>
        LET p == Head(last.args)
        IN  /\ last.host[1].config =
                   Spread(p, "className", clsx(<<Get(p, "className")>>))
            /\ Get(last.host[1].config, "className").kind = "string"
            /\ last.host[1].children = Tail(last.args)

\* C2, amended: a className whose value is not undefined is replaced by its
\* normalization, a string; an object whose className is undefined is passed
\* as it is; in both cases the rest is the child list.
C2_DefinedClassNameNormalized ==
    (IsElementCall /\ last.args # <<>> /\ PlainObject(Head(last.args))
        /\ HasKey(Head(last.args), "className")) =>
        LET p == Head(last.args)
        IN  /\ last.host[1].children = Tail(last.args)
            /\ IF Get(p, "className") # Undefined
               THEN /\ last.host[1].config =
                           Spread(p, "className", clsx(<<Get(p, "className")>>))
                    /\ Get(last.host[1].config, "className").kind = "string"
               ELSE last.host[1].config = p

\* The list ['a', false, 'b'] reached the host as the string "a b", beside
\* an untouched id and with children.
C2_Witness ==
    /\ IsElementCall
    /\ last.args # <<>>
    /\ Head(last.args) =
           Obj(<<<<"className", Arr(<<Str(<<"a">>), Bool(FALSE), Str(<<"b">>)>>)>>,
                 <<"id", Str(<<"main">>)>>>>)
    /\ Len(last.args) = 3
    /\ Get(last.host[1].config, "className") = Str(<<"a", " ", "b">>)

\* C3: a first argument taken as the first child reaches the host with no
\* properties and in front of the rest, every child at its call position.
C3_FirstChildPrepended ==
    (IsElementCall /\ last.args # <<>> /\ ~PlainObject(Head(last.args))) =>
        /\ last.host[1].type = Tag(last.of)
        /\ last.host[1].config = Undefined
        /\ Len(last.host[1].children) = Len(last.args)
        /\ \A i \in 1..Len(last.args) : last.host[1].children[i] = last.args[i]

\* A text first argument followed by two different children.
C3_Witness ==
    /\ IsElementCall
    /\ Len(last.args) = 3
    /\ last.args[1] = Text
    /\ last.args[2] = TitleNode
    /\ last.args[3] = Undefined
    /\ last.host[1].children = <<Text, TitleNode, Undefined>>

\* C4: a properties object without a className field is passed to the host
\* as the caller's own object, no field added, removed or changed, with the
\* rest as the child list.
C4_PropsUnchanged ==
    (IsElementCall /\ last.args # <<>> /\ PlainObject(Head(last.args))
        /\ ~HasKey(Head(last.args), "className")) =>
        /\ last.host[1].config = Head(last.args)
        /\ last.host[1].own
        /\ last.host[1].children = Tail(last.args)

\* { title, count } went through with a child.
C4_Witness ==
    /\ IsElementCall
    /\ Len(last.args) = 2
    /\ Head(last.args) = Obj(<<<<"title", Text>>, <<"count", Num(5)>>>>)
    /\ last.host[1].config = Head(last.args)

\* What the same element function passes to the host for other arguments.
SameFunction(args) ==
    IF last.op = "createElement"
    THEN createElement(last.of, args).host[1]
    ELSE elementFunction(last.of, args).host[1]

\* A first argument that is no properties object and no empty value.
NonObjectChild(c) == c.kind \in {"string", "number", "element", "array"}

\* C5 as stated: factory(t)(undefined, c, ...rest) passes the host the same
\* properties and the same child list as factory(t)(c, ...rest).
C5_SameChildList ==
    (IsElementCall /\ Len(last.args) >= 2 /\ last.args[1] = Undefined
        /\ NonObjectChild(last.args[2])) =>
        /\ last.host[1].config = SameFunction(Tail(last.args)).config
        /\ last.host[1].children = SameFunction(Tail(last.args)).children

\* C5, amended: the two calls pass the same, undefined, properties, and the
\* child list of factory(t)(undefined, c, ...rest) is that of
\* factory(t)(c, ...rest), c followed by rest, with one undefined child in
\* front.
C5_LeadingUndefinedChild ==
    (IsElementCall /\ Len(last.args) >= 2 /\ last.args[1] = Undefined
        /\ NonObjectChild(last.args[2])) =>
        /\ last.host[1].config = SameFunction(Tail(last.args)).config
        /\ last.host[1].config = Undefined
        /\ SameFunction(Tail(last.args)).children = Tail(last.args)
        /\ last.host[1].children =
               <<Undefined>> \o SameFunction(Tail(last.args)).children

\* div(undefined, 'Hello', h1('Title')) was called.
C5_Witness ==
    /\ IsElementCall
    /\ last.args = <<Undefined, Text, TitleNode>>
    /\ last.host[1].children = <<Undefined, Text, TitleNode>>

RECURSIVE Rendered(_)

\* The children the host renders: empty values (undefined, null, booleans)
\* are ignored and arrays are flattened.
Rendered(children) ==
    IF children = <<>> THEN <<>>
    ELSE LET c == Head(children)
         IN  (CASE c.kind \in {"undefined", "null", "boolean"} -> <<>>
                [] c.kind = "array" -> Rendered(c.items)
                [] OTHER -> <<c>>) \o Rendered(Tail(children))

RenderedChildren(node) ==
    IF HasKey(node.props, "children")
    THEN Rendered(<<Get(node.props, "children")>>) ELSE <<>>

\* Two nodes the host renders alike: same type, key and properties, and the
\* same rendered children.
NodeEquivalent(n, m) ==
    /\ n.type = m.type
    /\ n.key = m.key
    /\ Without(n.props, "children") = Without(m.props, "children")
    /\ RenderedChildren(n) = RenderedChildren(m)

\* C6: factory(t)() passes the host t and no properties, and its node is
\* equivalent to the node the host builds from t, no properties and an empty
\* child list: nothing is rendered as a child.
C6_NoArguments ==
    (IsElementCall /\ last.args = <<>>) =>
        /\ Len(last.host) = 1
        /\ last.host[1].type = [kind |-> "tag", name |-> last.of]
        /\ last.host[1].config = Undefined
        /\ Rendered(last.host[1].children) = <<>>
        /\ last.ret = last.host[1].node
        /\ NodeEquivalent(last.ret,
               ReactCreateElement([kind |-> "tag", name |-> last.of],
                                  Undefined, <<>>))

\* span() was called: the absent first argument went to the host as one
\* undefined child.
C6_Witness ==
    /\ IsElementCall
    /\ last.args = <<>>
    /\ last.of = "span"
    /\ last.host[1].children = <<Undefined>>

\* C7 as stated: when a wrapper made by asComponentFnWithChildren takes its
\* first argument as the first child, the children the node renders are the
\* first argument followed by the rest, none dropped.
C7_NoChildDropped ==
    (last.op = "asComponentFnWithChildren" /\ last.args # <<>>
        /\ ~PlainObject(Head(last.args))) =>
        RenderedChildren(last.ret) = Rendered(last.args)

\* C8: a wrapper made by asComponentFn passes a properties object to the
\* host as it is, className included and not normalized, with the rest as
\* children; a first child goes with empty properties, in front of the rest.
C8_ComponentFnDispatch ==
    (last.op = "asComponentFn" /\ last.args # <<>>) =>
        /\ last.host[1].type = [kind |-> "component", name |-> last.of]
        /\ IF PlainObject(Head(last.args))
           THEN /\ last.host[1].config = Head(last.args)
                /\ last.host[1].own
                /\ last.host[1].children = Tail(last.args)
           ELSE /\ last.host[1].config = Obj(<<>>)
                /\ last.host[1].children = last.args

\* A className list went through the wrapper as a list.
C8_Witness ==
    /\ last.op = "asComponentFn"
    /\ Len(last.args) = 2
    /\ Get(Head(last.args), "className") =
           Arr(<<Str(<<"a">>), Bool(FALSE), Str(<<"b">>)>>)
    /\ Get(last.host[1].config, "className") =
           Arr(<<Str(<<"a">>), Bool(FALSE), Str(<<"b">>)>>)

\* C9: fragment passes a properties object to the host as it is, className
\* not normalized, with the rest as children; otherwise the children are the
\* first argument followed by the rest, so that fragment(n1, n2) holds
\* exactly n1 then n2.
C9_FragmentDispatch ==
    (last.op = "fragment" /\ last.args # <<>>) =>
        /\ last.host[1].type = Fragment
        /\ IF PlainObject(Head(last.args))
           THEN /\ last.host[1].config = Head(last.args)
                /\ last.host[1].own
                /\ last.host[1].children = Tail(last.args)
           ELSE /\ last.host[1].config = Undefined
                /\ last.host[1].children = last.args
                /\ last.ret.props =
                       Obj(<<<<"children",
                               IF Len(last.args) = 1 THEN last.args[1]
                               ELSE Arr(last.args)>>>>)

\* fragment(p('Body'), h1('Title')) groups the two nodes in call order.
C9_Witness ==
    /\ last.op = "fragment"
    /\ last.args = <<BodyNode, TitleNode>>
    /\ last.ret.props = Obj(<<<<"children", Arr(<<BodyNode, TitleNode>>)>>>>)

\* C10: createMemoizedElement(t) returns the function first handed out for
\* t, after any createMemoizedElement and createElements calls, and the
\* cache entry of a tag is still that first function.
C10_SameInstance ==
    /\ last.op = "createMemoizedElement" => last.fn = firstFn[last.tag]
    /\ DOMAIN firstFn = DOMAIN elementCache
    /\ \A t \in DOMAIN firstFn : elementCache[t] = firstFn[t]

\* div is requested again after a second function was allocated, and the
\* first function comes back.
C10_Witness ==
    /\ last.op = "createMemoizedElement"
    /\ last.tag = "div"
    /\ last.fn = 1
    /\ Len(fns) = 2

\* C11: the function createMemoizedElement(t) hands out passes the host the
\* same tag, properties and child list, and returns the same node, as the
\* uncached createElement(t) of htmlElements.ts does for the same
\* arguments, whatever the cache holds.
C11_CacheTransparent ==
    last.op = "elementFunction" =>
        /\ last.fn \in 1..Len(fns)
        /\ fns[last.fn] = last.of
        /\ last.host = createElement(last.of, last.args).host
        /\ last.ret = createElement(last.of, last.args).ret

\* The second function allocated, cached for span, normalized a className
\* list while the cache held two entries.
C11_Witness ==
    /\ last.op = "elementFunction"
    /\ last.fn = 2
    /\ last.of = "span"
    /\ DOMAIN elementCache = {"div", "span"}
    /\ Len(last.args) = 2
    /\ Get(Head(last.args), "className") =
           Arr(<<Str(<<"a">>), Bool(FALSE), Str(<<"b">>)>>)
    /\ Get(last.host[1].config, "className") = Str(<<"a", " ", "b">>)

\* An element function got a properties object whose className has kind k.
ClassNameOfKind(k) ==
    /\ IsElementCall
    /\ last.args # <<>>
    /\ PlainObject(Head(last.args))
    /\ Get(Head(last.args), "className").kind = k

\* The className the caller gave and the one the host got.
GivenClassName == Get(Head(last.args), "className")
PassedClassName == Get(last.host[1].config, "className")

RECURSIVE Names(_)
RECURSIVE ListNames(_)

\* The class texts a className value contributes, in order: a non-empty
\* string itself, a number its digits, a list those of its truthy entries, a
\* mapping the names whose flag is truthy; an empty value nothing.
Names(v) ==
    CASE v.kind = "string" -> IF v.s = <<>> THEN <<>> ELSE <<v.s>>
      [] v.kind = "number" -> IF v.n = 0 THEN <<>> ELSE <<NumText(v.n)>>
      [] v.kind = "array" -> ListNames(v.items)
      [] v.kind = "object" ->
            LET flagged == SelectSeq(v.fields, LAMBDA f : Truthy(f[2]))
            IN  [i \in 1..Len(flagged) |-> <<flagged[i][1]>>]
      [] OTHER -> <<>>

ListNames(items) ==
    IF items = <<>> THEN <<>>
    ELSE (IF Truthy(Head(items)) THEN Names(Head(items)) ELSE <<>>)
             \o ListNames(Tail(items))

RECURSIVE SpaceSeparated(_)

\* The texts with one space between neighbours.
SpaceSeparated(texts) ==
    IF texts = <<>> THEN <<>>
    ELSE IF Len(texts) = 1 THEN texts[1]
    ELSE texts[1] \o <<" ">> \o SpaceSeparated(Tail(texts))

\* C12: a className list reaches the host as the space-separated texts, in
\* list order, of its non-empty strings and truthy entries, nested lists and
\* mappings entered by the same rules, falsy entries (false, null, '',
\* undefined) left out; ['a', false, 'b'] gives "a b" and
\* ['base', {cond: true, hidden: false}, 'extra'] gives "base cond extra".
C12_ListNormalized ==
    ClassNameOfKind("array") =>
        /\ PassedClassName = Str(SpaceSeparated(Names(GivenClassName)))
        /\ GivenClassName = Arr(<<Str(<<"a">>), Bool(FALSE), Str(<<"b">>)>>)
               => PassedClassName = Str(<<"a", " ", "b">>)
        /\ GivenClassName =
               Arr(<<Str(<<"base">>),
                     Obj(<<<<"cond", Bool(TRUE)>>, <<"hidden", Bool(FALSE)>>>>),
                     Str(<<"extra">>)>>)
               => PassedClassName = Str(<<"base", " ", "cond", " ", "extra">>)

\* ['base', {cond: true, hidden: false}, 'extra'] was given and
\* "base cond extra" passed.
C12_Witness ==
    /\ ClassNameOfKind("array")
    /\ Len(GivenClassName.items) = 3
    /\ GivenClassName.items[2].kind = "object"
    /\ PassedClassName = Str(<<"base", " ", "cond", " ", "extra">>)

\* The names of a mapping that occur in a class text.
NamesIn(text) == { text[i] : i \in 1..Len(text) } \ {" "}

\* C13: a className mapping reaches the host as the names whose flag is
\* truthy, and only those, in the insertion order of the mapping;
\* {a: true, b: false} gives "a".
C13_MappingNormalized ==
    ClassNameOfKind("object") =>
        LET fields == GivenClassName.fields
            flagged == SelectSeq(fields, LAMBDA f : Truthy(f[2]))
        IN  /\ PassedClassName.kind = "string"
            /\ \A i \in 1..Len(fields) :
                   fields[i][1] \in NamesIn(PassedClassName.s)
                       <=> Truthy(fields[i][2])
            /\ PassedClassName.s =
                   SpaceSeparated([i \in 1..Len(flagged) |-> <<flagged[i][1]>>])
            /\ GivenClassName = Obj(<<<<"a", Bool(TRUE)>>, <<"b", Bool(FALSE)>>>>)
                   => PassedClassName = Str(<<"a">>)

\* {zeta: true, hidden: false, alpha: true} was given and "zeta alpha"
\* passed: insertion order, not sorted.
C13_Witness ==
    /\ ClassNameOfKind("object")
    /\ Len(GivenClassName.fields) = 3
    /\ PassedClassName = Str(<<"zeta", " ", "alpha">>)

\* The class attribute of the element the host renders for a node: the
\* className string, empty when className is absent, undefined or null.
ClassAttribute(node) ==
    IF Get(node.props, "className").kind = "string"
    THEN Get(node.props, "className").s ELSE <<>>

\* C14: a className string reaches the host unchanged; null is normalized
\* to the empty string, as undefined and an absent value would be; an
\* element made with className '' or with className undefined has an empty
\* class attribute.
C14_StringAndEmpty ==
    /\ ClassNameOfKind("string") => PassedClassName = GivenClassName
    /\ ClassNameOfKind("null") => PassedClassName = Str(<<>>)
    /\ ClassNameOfKind("undefined") =>
           /\ clsx(<<GivenClassName>>) = Str(<<>>)
           /\ ClassAttribute(last.ret) = <<>>
    /\ (ClassNameOfKind("string") /\ GivenClassName.s = <<>>) =>
           ClassAttribute(last.ret) = <<>>

\* className null was given beside an id, and the empty string passed.
C14_Witness ==
    /\ ClassNameOfKind("null")
    /\ HasKey(Head(last.args), "id")
    /\ PassedClassName = Str(<<>>)
    /\ ClassAttribute(last.ret) = <<>>

\* An element function got a properties object first.
PropsCall ==
    /\ IsElementCall
    /\ last.args # <<>>
    /\ PlainObject(Head(last.args))

\* The node holds exactly the children cs, in order: no children field for
\* none, the child itself for one, the list for more.
HoldsChildren(node, cs) ==
    /\ HasKey(node.props, "children") <=> cs # <<>>
    /\ Len(cs) = 1 => Get(node.props, "children") = cs[1]
    /\ Len(cs) > 1 => Get(node.props, "children") = Arr(cs)

\* C15 as stated: the node built by factory(t)(p, c1, ..., cn), n >= 0, has
\* tag t and exactly the children c1..cn in call order.
C15_ChildrenExactly ==
    PropsCall =>
        /\ last.ret.type = [kind |-> "tag", name |-> last.of]
        /\ HoldsChildren(last.ret, Tail(last.args))

\* C15, amended: the node has tag t and, for n >= 1, exactly the children
\* c1..cn in call order, each as it was given; for n = 0 it has the
\* children field of p, if p has one, and no children otherwise.
\* div({className: 'container'}, h1('Title'), p('Body')) has class
\* "container" and the h1 node then the p node as children.
C15_ChildrenInOrder ==
    PropsCall =>
        LET p == Head(last.args)
            cs == Tail(last.args)
        IN  /\ last.ret.type = [kind |-> "tag", name |-> last.of]
            /\ cs # <<>> => HoldsChildren(last.ret, cs)
            /\ cs = <<>> =>
                   /\ HasKey(last.ret.props, "children") <=> HasKey(p, "children")
                   /\ Get(last.ret.props, "children") = Get(p, "children")
            /\ last.args = <<Obj(<<<<"className", Str(<<"container">>)>>>>),
                             TitleNode, BodyNode>>
                   => last.ret.props =
                          Obj(<<<<"className", Str(<<"container">>)>>,
                                <<"children", Arr(<<TitleNode, BodyNode>>)>>>>)

\* div({className: 'container'}, h1('Title'), p('Body')) was built.
C15_Witness ==
    /\ last.op = "createElement"
    /\ last.of = "div"
    /\ last.args = <<Obj(<<<<"className", Str(<<"container">>)>>>>),
                     TitleNode, BodyNode>>
    /\ Get(last.ret.props, "children") = Arr(<<TitleNode, BodyNode>>)
    /\ TitleNode.type = [kind |-> "tag", name |-> "h1"]
    /\ Get(TitleNode.props, "children") = Str(<<"Title">>)

\* A call of an element function for a tag that ended in an error.
ElementCallThrew ==
    /\ last.op = "threw"
    /\ last.by \in {"createElement", "elementFunction"}

\* C16: the element function raises no error of its own: whatever the
\* arguments it reaches the host constructor, it ends in an error exactly
\* when the host constructor threw, and the error is then the host's own,
\* not caught, wrapped or retried.
C16_HostErrorPropagates ==
    (IsElementCall \/ ElementCallThrew) =>
        /\ Len(last.host) = 1
        /\ last.op = "threw" <=> last.hostThrew
        /\ last.op = "threw" => last.error = HostError

\* The host threw on a call with a properties object and one child, and the
\* call ended in that error after its one host call.
C16_Witness ==
    /\ ElementCallThrew
    /\ last.hostThrew
    /\ Len(last.args) = 2
    /\ PlainObject(Head(last.args))
    /\ last.host[1].config = Head(last.args)
    /\ last.error = HostError

\* C17: on the properties branch with className, the properties branch
\* without it and the first-child branch alike, the element function calls
\* the host constructor exactly once and returns the very node that call
\* returned.
C17_OneHostCall ==
    IsElementCall =>
        /\ Len(last.host) = 1
        /\ last.ret = last.host[1].node
        /\ last.ret =
               ReactCreateElement(last.host[1].type, last.host[1].config,
                                  last.host[1].children)

\* A call on the className branch returned the node of its one host call.
C17_Witness ==
    /\ ClassNameOfKind("array")
    /\ ~last.host[1].own
    /\ Len(last.host) = 1
    /\ last.ret = last.host[1].node
    /\ last.ret.kind = "element"

\* C18: whatever factory creations and calls came before, the function
\* obtained for tag t passes exactly t to the host constructor: every cached
\* function, every function createMemoizedElement(t) or createElements
\* returns for t has t as its tag, and every call of a function for t, cached
\* or made by createElement(t), makes its host call with tag t.
C18_TagKept ==
    /\ \A t \in DOMAIN elementCache : fns[elementCache[t]] = t
    /\ last.op = "createMemoizedElement" => fns[last.fn] = last.tag
    /\ last.op = "createElements" =>
           \A t \in DOMAIN last.elements : fns[last.elements[t]] = t
    /\ (IsElementCall \/ ElementCallThrew) =>
           /\ \A i \in 1..Len(last.host) : last.host[i].type = Tag(last.of)
           /\ last.fn # 0 =>
                  \A t \in DOMAIN elementCache :
                      elementCache[t] = last.fn =>
                          last.host[1].type = Tag(t)
           /\ last.op # "threw" => last.ret.type = Tag(last.of)

\* The cached span function, made after the div function, was called with a
\* properties object and built a span node.
C18_Witness ==
    /\ last.op = "elementFunction"
    /\ Len(fns) >= 2
    /\ fns[1] = "div"
    /\ "span" \in DOMAIN elementCache
    /\ elementCache["span"] = last.fn
    /\ last.fn = 2
    /\ Len(last.args) >= 1
    /\ PlainObject(Head(last.args))
    /\ last.ret.type = Tag("span")

\* Both invocations are for the same tag, both missed the cache and both
\* have stored, and neither caller has yet gone on.
BothStored ==
    /\ \A c \in Callers : race[c].pc = "done" /\ race[c].stored
    /\ race[1].tag = race[2].tag

\* The function stored later: functions are numbered in the order made, and
\* each is stored in the step that makes it.
LaterStored == IF race[1].fn > race[2].fn THEN race[1].fn ELSE race[2].fn

\* C20: when two invocations of createMemoizedElement(t) both miss and both
\* store, the cache holds for t the function stored later, in the one entry
\* it has for t, and the two returned functions and the cached one are
\* functions for t that make the same host call and give the same node for
\* every argument list.
C20_RaceHarmless ==
    BothStored =>
        LET t == race[1].tag
        IN  /\ race[1].fn # race[2].fn
            /\ t \in DOMAIN elementCache
            /\ elementCache[t] = LaterStored
            /\ Cardinality({k \in DOMAIN elementCache : k = t}) = 1
            /\ \A c \in Callers : fns[race[c].fn] = t
            /\ fns[elementCache[t]] = t
            /\ \A c \in Callers, args \in ArgLists :
                   elementFunction(fns[race[c].fn], args)
                       = elementFunction(fns[elementCache[t]], args)

\* Both invocations missed for div before either stored; the second caller
\* stored first.
C20_Witness ==
    /\ BothStored
    /\ race[1].tag = "div"
    /\ race[1].fn = 2
    /\ race[2].fn = 1
    /\ elementCache["div"] = 2

\* C21: the library retains no element node. In every state its only
\* module-level state, the element cache, is keyed by requested tags and
\* holds element functions, each a closure over its tag alone; a node exists
\* only in the hands of the caller of the call that returned it.
C21_NoNodeRetained ==
    /\ DOMAIN elementCache \subseteq Tags
    /\ \A t \in DOMAIN elementCache : elementCache[t] \in 1..Len(fns)
    /\ \A f \in 1..Len(fns) : fns[f] \in Tags

\* A cached function has returned a node with a nested node as its child;
\* the cache holds two functions.
C21_Witness ==
    /\ last.op = "elementFunction"
    /\ last.ret.kind = "element"
    /\ last.args = <<TitleNode>>
    /\ DOMAIN elementCache = {"div", "span"}
    /\ Len(fns) = 2

\* The type of the nodes the export called name is documented to build.
DocumentedType(name) ==
    IF name = "fragment" THEN Fragment
    ELSE IF name = "var_" THEN Tag("var")
    ELSE Tag(name)

\* C22: every name of the documented element list is exported, more than
\* 100 of them, and a call of the function exported under a name makes its
\* host call with, and returns a node of, the tag that is the name, except
\* that var_ builds 'var' and fragment the host's fragment type.
C22_ExportsBuildTheirTag ==
    /\ expectedElements \subseteq ExportedNames
    /\ Cardinality(ExportedNames) > 100
    /\ last.op = "export" =>
           /\ last.name \in ExportedNames
           /\ last.host[1].type = DocumentedType(last.name)
           /\ last.ret.type = DocumentedType(last.name)

\* var_({className: 'container'}, 'Hello') built a var node.
C22_Witness ==
    /\ last.op = "export"
    /\ last.name = "var_"
    /\ Len(last.args) = 2
    /\ last.ret.type = Tag("var")
    /\ ClassAttribute(last.ret) = <<"container">>

\* C23: a list given as the first argument is a child: the host call has
\* undefined properties and the whole argument list as its children, the
\* list itself at position 0, not its items; a list in a later position is
\* likewise one child, at the position its argument has among the children.
C23_ArrayIsOneChild ==
    IsElementCall =>
        LET children == last.host[1].children
            shift == Len(last.args) - Len(children)
        IN  /\ (last.args # <<>> /\ isArray(Head(last.args))) =>
                   /\ last.host[1].config = Undefined
                   /\ children = last.args
                   /\ children[1] = Head(last.args)
            /\ \A i \in 2..Len(last.args) :
                   isArray(last.args[i]) =>
                       /\ i - shift \in 1..Len(children)
                       /\ children[i - shift] = last.args[i]

\* div(['Hello', h1('Title')], ['Hello', h1('Title')]): two lists, two
\* children.
C23_Witness ==
    /\ last.op = "createElement"
    /\ last.args = <<Arr(<<Text, TitleNode>>), Arr(<<Text, TitleNode>>)>>
    /\ last.host[1].config = Undefined
    /\ Len(last.host[1].children) = 2
    /\ last.ret.kind = "element"

\* The names of the fields of an object.
FieldNames(o) == {o.fields[i][1] : i \in 1..Len(o.fields)}

\* The caller's properties object as it is after the call: the object the
\* host was given if that is the caller's own, and untouched otherwise.
CallerPropsAfter ==
    IF last.host[1].own THEN last.host[1].config ELSE Head(last.args)

\* C24: the element function does not mutate the caller's properties
\* object. The object is the same after the call as before; when className
\* is normalized the host is given a new object with the same field names,
\* every field but className at its original value, and the caller's
\* object keeps its original className.
C24_CallerPropsNotMutated ==
    (IsElementCall /\ last.args # <<>> /\ PlainObject(Head(last.args))) =>
        LET props == Head(last.args)
            passed == last.host[1].config
        IN  /\ CallerPropsAfter = props
            /\ Get(props, "className") # Undefined =>
                   /\ ~last.host[1].own
                   /\ FieldNames(passed) = FieldNames(props)
                   /\ Len(passed.fields) = Len(props.fields)
                   /\ \A k \in FieldNames(props) \ {"className"} :
                          Get(passed, k) = Get(props, k)
                   /\ Get(CallerPropsAfter, "className")
                          = Get(props, "className")

\* div({className: ['a', false, 'b'], id: 'main'}, 'Hello'): the host got
\* class "a b" and id 'main' in a new object, the caller's list is as it was.
C24_Witness ==
    /\ last.op = "createElement"
    /\ last.args = <<Obj(<<<<"className",
                            Arr(<<Str(<<"a">>), Bool(FALSE), Str(<<"b">>)>>)>>,
                          <<"id", Str(<<"main">>)>>>>), Text>>
    /\ Get(last.host[1].config, "className") = Str(<<"a", " ", "b">>)
    /\ Get(last.host[1].config, "id") = Str(<<"main">>)
    /\ ~last.host[1].own
    /\ Get(CallerPropsAfter, "className").kind = "array"

\* The properties an element function passes for a first argument it takes
\* as the properties object.
PropsPassedFor(props) ==
    IF Get(props, "className") # Undefined
    THEN Spread(props, "className", clsx(<<Get(props, "className")>>))
    ELSE props

\* C25: only the first argument is classified. The properties of the host
\* call are undefined or those of the first argument, whatever follows it,
\* and every argument after the first is a child at its own position,
\* exactly as given, a plain object with a className too; a call with
\* undefined first and {className: ...} second passes undefined properties
\* and both arguments as children.
C25_OnlyFirstClassified ==
    IsElementCall =>
        LET children == last.host[1].children
            shift == Len(last.args) - Len(children)
        IN  /\ last.args # <<>> => shift \in {0, 1}
            /\ \A i \in 2..Len(last.args) : children[i - shift] = last.args[i]
            /\ \/ last.host[1].config = Undefined
               \/ /\ last.args # <<>>
                  /\ PlainObject(Head(last.args))
                  /\ last.host[1].config = PropsPassedFor(Head(last.args))
            /\ (Len(last.args) >= 2 /\ ~PlainObject(Param0(last.args))) =>
                   /\ last.host[1].config = Undefined
                   /\ children = last.args

\* span(undefined, {className: ['a', false]}) from the cache: no properties,
\* the object is the second child with its className list as given.
C25_Witness ==
    /\ last.op = "elementFunction"
    /\ last.args = <<Undefined,
                     Obj(<<<<"className", Arr(<<Str(<<"a">>), Bool(FALSE)>>)>>>>)>>
    /\ last.host[1].config = Undefined
    /\ last.host[1].children[2] = last.args[2]
    /\ last.ret.kind = "element"

\* C26: conditional returns the element when the condition is true; when it
\* is false it returns the fallback whenever one is supplied, a falsy node
\* such as 0 or '' too, null when none is supplied, and never undefined.
C26_FallbackReturned ==
    last.op = "conditional" =>
        LET condition == last.args[1].b
            supplied == Len(last.args) = 3 /\ last.args[3] # Undefined
        IN  /\ condition => last.ret = last.args[2]
            /\ (~condition /\ supplied) => last.ret = last.args[3]
            /\ (~condition /\ ~supplied) => last.ret = Null
            /\ ~condition => last.ret # Undefined

\* The calls of one callback, in the order made.
CallsOf(fn) == SelectSeq(last.calls, LAMBDA c : c.fn = fn)

\* One call of the callback fn for each item, in index order.
OncePerItem(fn) ==
    [i \in 1..Len(last.items) |->
        [fn |-> fn, item |-> last.items[i], index |-> i - 1]]

TagSet(tags) == {tags[i] : i \in 1..Len(tags)}

\* C28: a step that finishes createElements(tags) returns a record whose
\* keys are exactly the distinct tags of the list, each mapped to the
\* function the cache now holds for the tag, which is the one
\* createMemoizedElement(tag) returns and the first ever made for the tag (so
\* two calls agree on a shared tag and a repeated tag gets one function); it
\* adds to the cache exactly the tags that were missing, one new function
\* each, and leaves the entries that were there as they were.
C28_CreateElements ==
    [][ last'.op = "createElements" =>
          LET wanted == TagSet(last'.tags)
              missing == wanted \ DOMAIN elementCache
          IN  /\ DOMAIN last'.elements = wanted
              /\ \A t \in wanted :
                     /\ last'.elements[t] = elementCache'[t]
                     /\ last'.elements[t] =
                            createMemoizedElement(elementCache', fns', t).ret
                     /\ last'.elements[t] = firstFn'[t]
                     /\ fns'[last'.elements[t]] = t
              /\ DOMAIN elementCache' = DOMAIN elementCache \cup missing
              /\ \A t \in DOMAIN elementCache : elementCache'[t] = elementCache[t]
              /\ Len(fns') = Len(fns) + Cardinality(missing)
              /\ \A f \in 1..Len(fns) : fns'[f] = fns[f]
    ]_vars

\* createElements(['span', 'div']) when div was already cached: div keeps
\* its function, span gets a new one.
C28_Witness ==
    /\ last.op = "createElements"
    /\ last.tags = <<"span", "div">>
    /\ fns = <<"div", "span">>
    /\ last.elements["div"] = 1
    /\ last.elements["span"] = 2
    /\ elementCache = last.elements

\* The operations that build nodes or values and are not factory creations:
\* element functions, exports, fragment, component wrappers, conditional and
\* mapWithKeys, whether they returned or threw.
NotACreation(op) ==
    op \in {"createElement", "elementFunction", "export", "fragment",
            "asComponentFn", "asComponentFnWithChildren", "conditional",
            "mapWithKeys", "threw"}

\* C29: a call of an element function, fragment, a component wrapper,
\* conditional or mapWithKeys leaves the element cache as it was; the keys of
\* the cache are always exactly the tags requested so far through
\* createMemoizedElement or createElements; no step removes or replaces an
\* entry.
C29_CacheFrame ==
    /\ [](DOMAIN elementCache = DOMAIN firstFn)
    /\ [][ /\ NotACreation(last'.op) =>
                  /\ elementCache' = elementCache
                  /\ fns' = fns
           /\ DOMAIN elementCache \subseteq DOMAIN elementCache'
           /\ \A t \in DOMAIN elementCache : elementCache'[t] = elementCache[t]
       ]_vars

\* mapWithKeys was called after div alone had been requested: the cache
\* still holds div alone.
C29_Witness ==
    /\ last.op = "mapWithKeys"
    /\ Len(last.ret) = 2
    /\ DOMAIN elementCache = {"div"}
    /\ DOMAIN firstFn = {"div"}
    /\ fns = <<"div">>

\* The same function called again with the properties the host was given in
\* place of the caller's, and the same children.
CalledAgain ==
    LET args == <<last.host[1].config>> \o Tail(last.args)
    IN  IF last.op = "createElement"
        THEN createElement(last.of, args)
        ELSE elementFunction(last.of, args)

\* C30: class-name normalization is idempotent on its output. For every
\* className given, string, list, mapping, null or nested, the class string
\* the host got is a string that normalizes to itself, and passing that
\* properties object through the element function again gives the host the
\* same class string, the same properties and so the same node.
C30_NormalizeIdempotent ==
    (PropsCall /\ GivenClassName # Undefined) =>
        LET again == CalledAgain
        IN  /\ PassedClassName.kind = "string"
            /\ PassedClassName = clsx(<<GivenClassName>>)
            /\ clsx(<<PassedClassName>>) = PassedClassName
            /\ Get(again.host[1].config, "className") = PassedClassName
            /\ again.host[1].config = last.host[1].config
            /\ again.ret = last.ret

\* div({className: ['a', null, undefined, '', ['b', ['c']]]}) gave class
\* "a b c", and "a b c" normalizes to itself.
C30_Witness ==
    /\ PropsCall
    /\ last.op = "createElement"
    /\ GivenClassName = Arr(<<Str(<<"a">>), Null, Undefined, Str(<<>>),
                              Arr(<<Str(<<"b">>), Arr(<<Str(<<"c">>)>>)>>)>>)
    /\ PassedClassName = Str(<<"a", " ", "b", " ", "c">>)
    /\ clsx(<<PassedClassName>>) = Str(<<"a", " ", "b", " ", "c">>)

====
